---- MODULE Spec2Model ----
(***************************************************************************)
(* Model of the QKD random-byte engine (engine/qkd/template_engine.c, and  *)
(* its twin qkd_engine embedded in engine/qkd/temp_engine.zsh).            *)
(*                                                                         *)
(* The engine keeps five process-wide globals (service URL, key handle,    *)
(* key buffer, its length and its read cursor).  Every network round-trip  *)
(* of an operation is one step of the model; the response of the remote    *)
(* service is chosen nondeterministically.  Memory allocation inside the   *)
(* request helpers (malloc, asprintf, strndup) is taken to succeed; the    *)
(* strdup of the control command is modelled with both outcomes.           *)
(*                                                                         *)
(* The remote key engine (engine/remote_qkd_engine.c) is modelled beside   *)
(* it: its globals alice_url, bob_url and key_handle, with every call as   *)
(* one step (SpecRemote).                                                  *)
(***************************************************************************)
EXTENDS Integers, Sequences, FiniteSets, TLC

(* ------------------------------------------------------------------ *)
(* Bounds and input sets                                               *)
(* ------------------------------------------------------------------ *)

\* number of key blocks the service hands out before it only fails
MaxKeys == 3

\* number of random_bytes calls recorded for one session
MaxCalls == 2

\* the NULL pointer
NULL == 0

URLs == {1, 2}

Handles == {1, 2}

Threads == {1, 2}

\* the threads that call into the engine (the reference behaviour is
\* single-threaded)
Callers == {1}

\* lengths (in bytes) of the raw key blocks the service encodes
KeyLens == {3, 16, 32}

\* values of the num argument of random_bytes
NumVals == {0, 20, 48}

\* the request sizes a and b, and the raw block lengths, of the
\* concatenation property
ConcatNums == {0, 3, 4}

ConcatLens == {3, 16}

\* key blocks the service hands out under the fair specification
LiveKeys == 2

\* random_bytes calls made in a run of the two-thread specification
MaxRaceCalls == 2

\* num arguments and raw block lengths of the two-thread specification
RaceNums == {4}

RaceLens == {3}

\* period of the block lengths in the response sequence of a whole call
MaxPeriod == 2

(* ------------------------------------------------------------------ *)
(* Base64: text is a sequence of characters, 0..63 the alphabet in     *)
(* order, 64 the padding character '=', anything above not Base64.     *)
(* ------------------------------------------------------------------ *)

\* the j-th raw key block of length L the service generates (bytes 1..251)
RawKey(j, L) == [i \in 1..L |-> ((37 * j + 11 * i) % 251) + 1]

\* Base64 text of one group of up to three bytes, '=' padded (service side)
EncodeGroup(g) ==
    LET n == Len(g)
        b1 == g[1]
        b2 == IF n >= 2 THEN g[2] ELSE 0
        b3 == IF n >= 3 THEN g[3] ELSE 0
        l == b1 * 65536 + b2 * 256 + b3
    IN  << l \div 262144,
           (l \div 4096) % 64,
           IF n >= 2 THEN (l \div 64) % 64 ELSE 64,
           IF n >= 3 THEN l % 64 ELSE 64 >>

RECURSIVE Base64Encode(_)
\* standard Base64 encoding of a byte sequence (what the service sends)
Base64Encode(bytes) ==
    IF Len(bytes) = 0 THEN << >>
    ELSE IF Len(bytes) <= 3 THEN EncodeGroup(bytes)
    ELSE EncodeGroup(SubSeq(bytes, 1, 3)) \o Base64Encode(SubSeq(bytes, 4, Len(bytes)))

\* OpenSSL's character table: '=' maps to 0, a non-alphabet character to 0xFF
conv_ascii2bin(ch) == IF ch = 64 THEN 0 ELSE IF ch \in 0..63 THEN ch ELSE 255

RECURSIVE DecodeGroups(_)
\* every four characters give three bytes, padding included
DecodeGroups(f) ==
    IF Len(f) = 0 THEN << >>
    ELSE LET l == conv_ascii2bin(f[1]) * 262144 + conv_ascii2bin(f[2]) * 4096
                  + conv_ascii2bin(f[3]) * 64 + conv_ascii2bin(f[4])
         IN  << l \div 65536, (l \div 256) % 256, l % 256 >>
             \o DecodeGroups(SubSeq(f, 5, Len(f)))

\* EVP_DecodeBlock(t, f, n): -1 when n is no multiple of 4 or a character is
\* not Base64; otherwise 3 bytes for every 4 characters, and the length
\* returned counts the bytes that come from '=' padding.
EVP_DecodeBlock(f) ==
    IF Len(f) % 4 # 0 \/ (\E i \in 1..Len(f) : conv_ascii2bin(f[i]) >= 128)
    THEN [ret |-> -1, out |-> << >>]
    ELSE [ret |-> 3 * (Len(f) \div 4), out |-> DecodeGroups(f)]

(* ------------------------------------------------------------------ *)
(* Responses of the remote service.  code 0 is a transport failure      *)
(* (curl_easy_perform did not return CURLE_OK).                         *)
(* ------------------------------------------------------------------ *)

Response(code, handle, has_key, text) ==
    [code |-> code, key_handle |-> handle, has_key |-> has_key, key_buffer |-> text]

TransportFailure == Response(0, NULL, FALSE, << >>)

Http500 == Response(500, NULL, FALSE, << >>)

\* HTTP 200 whose body has neither field
Http200 == Response(200, NULL, FALSE, << >>)

OkHandle(h) == Response(200, h, FALSE, << >>)

OkKey(text) == Response(200, NULL, TRUE, text)

\* HTTP 500 whose body nevertheless has a key_handle field
ErrHandle(h) == Response(500, h, FALSE, << >>)

\* HTTP 500 whose body nevertheless has a key_buffer field
ErrKey(text) == Response(500, NULL, TRUE, text)

\* what /qkd_open may answer
OpenResponses ==
    {TransportFailure, Http500, ErrHandle(1), Http200} \cup {OkHandle(h) : h \in Handles}

\* what /qkd_connect_blocking and /qkd_close may answer
PlainResponses == {TransportFailure, Http500, Http200}

\* the ways /qkd_get_key may fail to deliver a key: a failure, a body
\* without the field, an empty key, a text that is not Base64
FetchFailures ==
    {TransportFailure, Http500, ErrKey(Base64Encode(RawKey(1, 3))), Http200,
     OkKey(<< >>), OkKey(<<1, 2, 3>>)}

\* /qkd_get_key answering with the Base64 text of the j-th raw key block
KeyResponse(j, L) == OkKey(Base64Encode(RawKey(j, L)))

(* ------------------------------------------------------------------ *)
(* State                                                               *)
(* ------------------------------------------------------------------ *)

VARIABLES
    qkd_service_url,      \* NULL or the configured URL
    qkd_key_handle,       \* NULL or the handle the service returned
    qkd_key_buffer,       \* the bytes of the current key block (<< >> when NULL)
    qkd_key_buffer_len,   \* its length as the decoder reported it
    qkd_key_buffer_pos,   \* the read cursor
    pc,                   \* per thread: where its current engine call stands
    op,                   \* per thread: the engine entry point it called
    num,                  \* per thread: argument num of random_bytes
    bytes_provided,       \* per thread: local bytes_provided of random_bytes
    bytes_to_copy,        \* per thread: local bytes_to_copy of random_bytes
    buf,                  \* per thread: the caller's buffer, offset -> byte written
    ret,                  \* per thread: the value the call returns
    reqs,                 \* requests sent during the current call, in order
    session,              \* history: Disconnected / Open / Closed
    served,               \* history: number of raw key blocks the service handed out
    calls,                \* history: num of the random_bytes calls of this session
    fetched,              \* history: raw lengths of the key blocks fetched in this session
    nfetch,               \* history: number of fetch requests sent in this session
    delivered,            \* history: bytes delivered by the earlier calls of this session
    alice_url,            \* remote key engine: NULL or Alice's URL
    bob_url,              \* remote key engine: NULL or Bob's URL
    key_handle,           \* remote key engine: -1 or the handle of the session
    remote                \* remote key engine: the call in progress and the one before

\* the globals of remote_qkd_engine.c and the call made on them
remote_vars == << alice_url, bob_url, key_handle, remote >>

vars == << qkd_service_url, qkd_key_handle, qkd_key_buffer, qkd_key_buffer_len,
           qkd_key_buffer_pos, pc, op, num, bytes_provided, bytes_to_copy, buf,
           ret, reqs, session, served, calls, fetched, nfetch, delivered,
           alice_url, bob_url, key_handle, remote >>

(* ------------------------------------------------------------------ *)
(* The code, as functions of the engine state c (globals and the       *)
(* locals of the calling thread) and of the response received.         *)
(* Each returns the new state and the request it sent, if any.         *)
(* ------------------------------------------------------------------ *)

\* history: did the service answer the request o with what it asks for: a
\* handle for an open, a non-empty Base64 key for a fetch, HTTP 200 otherwise
Answered(o, resp) ==
    /\ resp.code = 200
    /\ o = "open" => resp.key_handle # NULL
    /\ o = "get_key" => resp.has_key /\ EVP_DecodeBlock(resp.key_buffer).ret > 0

\* the record of one request: path, URL and handle sent, status received,
\* whether it was answered, and the handle the response carried
Request(o, url, handle, resp) ==
    [op |-> o, url |-> url, handle |-> handle, code |-> resp.code,
     ok |-> Answered(o, resp), got |-> resp.key_handle]

\* mutant: the body is parsed before the status is looked at
perform_post_parse_first(resp, mode, handle_out, key_out, key_len_out) ==
    LET ok == resp.code = 200
    IN  IF resp.code = 0
        THEN [body |-> FALSE, handle |-> handle_out, key |-> key_out, key_len |-> key_len_out]
        ELSE IF mode = "handle"
        THEN [body |-> ok,
              handle |-> IF resp.key_handle # NULL THEN resp.key_handle ELSE handle_out,
              key |-> key_out, key_len |-> key_len_out]
        ELSE IF mode = "key" /\ resp.has_key
        THEN LET d == EVP_DecodeBlock(resp.key_buffer)
             IN  IF d.ret < 0
                 THEN [body |-> ok, handle |-> handle_out, key |-> << >>, key_len |-> 0]
                 ELSE [body |-> ok, handle |-> handle_out, key |-> d.out, key_len |-> d.ret]
        ELSE [body |-> ok, handle |-> handle_out, key |-> key_out, key_len |-> key_len_out]

\* perform_post: NULL (body FALSE) on a transport failure or a status other
\* than 200; otherwise the body, with *handle_out or *key_out/*key_len_out
\* assigned when the field is found (mode "handle" / "key" / "none").
perform_post(resp, mode, handle_out, key_out, key_len_out) ==
    IF resp.code # 200
    THEN [body |-> FALSE, handle |-> handle_out, key |-> key_out, key_len |-> key_len_out]
    ELSE IF mode = "handle"
    THEN [body |-> TRUE,
          handle |-> IF resp.key_handle # NULL THEN resp.key_handle ELSE handle_out,
          key |-> key_out, key_len |-> key_len_out]
    ELSE IF mode = "key" /\ resp.has_key
    THEN LET d == EVP_DecodeBlock(resp.key_buffer)
         IN  IF d.ret < 0
             THEN [body |-> TRUE, handle |-> handle_out, key |-> << >>, key_len |-> 0]
             ELSE [body |-> TRUE, handle |-> handle_out, key |-> d.out, key_len |-> d.ret]
    ELSE [body |-> TRUE, handle |-> handle_out, key |-> key_out, key_len |-> key_len_out]

\* mutant: step 1 that does not check that a handle was parsed
template_engine_connect_open_unchecked(c, resp) ==
    LET r == perform_post(resp, "handle", c.handle, << >>, 0)
        c1 == [c EXCEPT !.handle = r.handle]
    IN  [c |-> IF ~r.body
               THEN [c1 EXCEPT !.pc = "ret", !.ret = 0]
               ELSE [c1 EXCEPT !.pc = "connect_blocking"],
         req |-> << Request("open", c.url, NULL, resp) >>]

\* mutant: a handle that is already held is not overwritten
template_engine_connect_open_first(c, resp) ==
    LET r == perform_post(resp, "handle", c.handle, << >>, 0)
        c1 == [c EXCEPT !.handle = IF c.handle # NULL THEN c.handle ELSE r.handle]
    IN  [c |-> IF ~r.body \/ c1.handle = NULL
               THEN [c1 EXCEPT !.pc = "ret", !.ret = 0]
               ELSE [c1 EXCEPT !.pc = "connect_blocking"],
         req |-> << Request("open", c.url, NULL, resp) >>]

\* template_engine_connect, step 1: POST <url>/qkd_open
template_engine_connect_open(c, resp) ==
    LET r == perform_post(resp, "handle", c.handle, << >>, 0)
        c1 == [c EXCEPT !.handle = r.handle]
    IN  [c |-> IF ~r.body \/ r.handle = NULL
               THEN [c1 EXCEPT !.pc = "ret", !.ret = 0]
               ELSE [c1 EXCEPT !.pc = "connect_blocking"],
         req |-> << Request("open", c.url, NULL, resp) >>]

\* mutant: step 2 that goes on to the loop whatever the confirmation said
template_engine_connect_blocking_unchecked(c, resp) ==
    [c |-> [c EXCEPT !.pc = "loop"],
     req |-> << Request("connect", c.url, c.handle, resp) >>]

\* template_engine_connect, step 2: POST <url>/qkd_connect_blocking
template_engine_connect_blocking(c, resp) ==
    LET r == perform_post(resp, "none", NULL, << >>, 0)
    IN  [c |-> IF ~r.body THEN [c EXCEPT !.pc = "connect_err"]
                          ELSE [c EXCEPT !.pc = "loop"],
         req |-> << Request("connect", c.url, c.handle, resp) >>]

\* mutant: connect_err that frees the handle without the close request
template_engine_connect_err_silent(c, resp) ==
    IF c.handle # NULL
    THEN [c |-> [c EXCEPT !.pc = "connect_free"], req |-> << >>]
    ELSE [c |-> [c EXCEPT !.pc = "ret", !.ret = 0], req |-> << >>]

\* template_engine_connect, connect_err: the cleanup close request
template_engine_connect_err(c, resp) ==
    IF c.handle # NULL
    THEN [c |-> [c EXCEPT !.pc = "connect_free"],
          req |-> << Request("close", c.url, c.handle, resp) >>]
    ELSE [c |-> [c EXCEPT !.pc = "ret", !.ret = 0], req |-> << >>]

\* mutant: connect_err that returns -1 and keeps the handle
template_engine_connect_free_keep(c) ==
    [c |-> [c EXCEPT !.pc = "ret", !.ret = 0], req |-> << >>]

\* template_engine_connect, connect_err: free the handle, return -1
template_engine_connect_free(c) ==
    [c |-> [c EXCEPT !.handle = NULL, !.pc = "ret", !.ret = 0], req |-> << >>]

\* mutant: the old block is released before the connection is checked
template_engine_fetch_key_free_first(c, resp) ==
    IF c.url = NULL \/ c.handle = NULL
    THEN [c |-> [c EXCEPT !.buffer = << >>, !.len = 0, !.pos = 0], req |-> << >>, rc |-> -1]
    ELSE LET r == perform_post(resp, "key", NULL, << >>, 0)
         IN  IF ~r.body \/ r.key = << >> \/ r.key_len = 0
             THEN [c |-> [c EXCEPT !.buffer = << >>, !.len = 0, !.pos = 0],
                   req |-> << Request("get_key", c.url, c.handle, resp) >>,
                   rc |-> -1]
             ELSE [c |-> [c EXCEPT !.buffer = r.key, !.len = r.key_len, !.pos = 0],
                   req |-> << Request("get_key", c.url, c.handle, resp) >>,
                   rc |-> 0]

\* template_engine_fetch_key: rc 0 on success, -1 on error
template_engine_fetch_key(c, resp) ==
    IF c.url = NULL \/ c.handle = NULL
    THEN [c |-> c, req |-> << >>, rc |-> -1]
    ELSE LET r == perform_post(resp, "key", NULL, << >>, 0)
         IN  IF ~r.body \/ r.key = << >> \/ r.key_len = 0
             THEN [c |-> [c EXCEPT !.buffer = << >>, !.len = 0, !.pos = 0],
                   req |-> << Request("get_key", c.url, c.handle, resp) >>,
                   rc |-> -1]
             ELSE [c |-> [c EXCEPT !.buffer = r.key, !.len = r.key_len, !.pos = 0],
                   req |-> << Request("get_key", c.url, c.handle, resp) >>,
                   rc |-> 0]

\* mutant: the handle and the buffer are released only when the close
\* request succeeded
template_engine_close_checked(c, resp) ==
    LET sent == c.handle # NULL /\ c.url # NULL
        done == sent /\ resp.code = 200
    IN  [c |-> IF sent /\ ~done THEN c
               ELSE [c EXCEPT !.handle = IF sent THEN NULL ELSE c.handle,
                              !.buffer = << >>, !.len = 0, !.pos = 0],
         req |-> IF sent THEN << Request("close", c.url, c.handle, resp) >> ELSE << >>]

\* mutant: the close request is sent but the handle is kept
template_engine_close_keep(c, resp) ==
    LET sent == c.handle # NULL /\ c.url # NULL
    IN  [c |-> [c EXCEPT !.buffer = << >>, !.len = 0, !.pos = 0],
         req |-> IF sent THEN << Request("close", c.url, c.handle, resp) >> ELSE << >>]

\* mutant: the handle is released and the key buffer is left as it is
template_engine_close_keep_buffer(c, resp) ==
    LET sent == c.handle # NULL /\ c.url # NULL
    IN  [c |-> [c EXCEPT !.handle = IF sent THEN NULL ELSE c.handle],
         req |-> IF sent THEN << Request("close", c.url, c.handle, resp) >> ELSE << >>]

\* template_engine_close
template_engine_close(c, resp) ==
    LET sent == c.handle # NULL /\ c.url # NULL
    IN  [c |-> [c EXCEPT !.handle = IF sent THEN NULL ELSE c.handle,
                         !.buffer = << >>, !.len = 0, !.pos = 0],
         req |-> IF sent THEN << Request("close", c.url, c.handle, resp) >> ELSE << >>]

\* mutant: the copy reads from the start of the block, not from the cursor
memcpy_from_start(dst, off, src, pos, k) ==
    [i \in (DOMAIN dst) \cup ((off + 1)..(off + k)) |->
        IF i \in (off + 1)..(off + k) THEN src[i - off] ELSE dst[i]]

\* memcpy(dst + off, src + pos, k): dst is the map offset -> byte written
memcpy(dst, off, src, pos, k) ==
    [i \in (DOMAIN dst) \cup ((off + 1)..(off + k)) |->
        IF i \in (off + 1)..(off + k) THEN src[pos + (i - off)] ELSE dst[i]]

\* mutant: the entry rewinds the read cursor
template_rand_bytes_enter_rewind(c, n) ==
    LET c0 == [c EXCEPT !.num = n, !.bytes_provided = 0, !.buf = << >>, !.pos = 0]
    IN  IF c.handle = NULL
        THEN IF c.url = NULL THEN [c0 EXCEPT !.pc = "ret", !.ret = 0]
                             ELSE [c0 EXCEPT !.pc = "connect_open"]
        ELSE [c0 EXCEPT !.pc = "loop"]

\* mutant: the connection is attempted without looking at the URL
template_rand_bytes_enter_unchecked(c, n) ==
    LET c0 == [c EXCEPT !.num = n, !.bytes_provided = 0, !.buf = << >>]
    IN  IF c.handle = NULL
        THEN [c0 EXCEPT !.pc = "connect_open"]
        ELSE [c0 EXCEPT !.pc = "loop"]

\* template_rand_bytes: entry, connect on demand
template_rand_bytes_enter(c, n) ==
    LET c0 == [c EXCEPT !.num = n, !.bytes_provided = 0, !.buf = << >>]
    IN  IF c.handle = NULL
        THEN IF c.url = NULL THEN [c0 EXCEPT !.pc = "ret", !.ret = 0]
                             ELSE [c0 EXCEPT !.pc = "connect_open"]
        ELSE [c0 EXCEPT !.pc = "loop"]

\* mutant: a failed fetch does not end the loop, which fetches again
template_rand_bytes_fetch_retry(c, resp) ==
    LET f == template_engine_fetch_key(c, resp)
    IN  [c |-> f.c, req |-> f.req]

\* template_rand_bytes: the loop finds the buffer exhausted and fetches
template_rand_bytes_fetch(c, resp) ==
    LET f == template_engine_fetch_key(c, resp)
    IN  [c |-> IF f.rc # 0 \/ f.c.len = 0
               THEN [f.c EXCEPT !.pc = "ret",
                                !.ret = IF c.bytes_provided > 0 THEN 1 ELSE 0]
               ELSE f.c,
         req |-> f.req]

\* mutant: the copy does not advance the cursor and the produced count
template_rand_bytes_copy_stuck(c) ==
    LET avail == c.len - c.pos
        bytes_needed == c.num - c.bytes_provided
        k == IF avail > bytes_needed THEN bytes_needed ELSE avail
    IN  [c |-> [c EXCEPT !.buf = memcpy(c.buf, c.bytes_provided, c.buffer, c.pos, k)],
         req |-> << >>]

\* mutant: the copy is not cut to the bytes still needed
template_rand_bytes_copy_uncut(c) ==
    LET k == c.len - c.pos
    IN  [c |-> [c EXCEPT !.buf = memcpy(c.buf, c.bytes_provided, c.buffer, c.pos, k),
                         !.pos = c.pos + k,
                         !.bytes_provided = c.bytes_provided + k],
         req |-> << >>]

\* template_rand_bytes: the loop copies from the buffer
template_rand_bytes_copy(c) ==
    LET avail == c.len - c.pos
        bytes_needed == c.num - c.bytes_provided
        k == IF avail > bytes_needed THEN bytes_needed ELSE avail
    IN  [c |-> [c EXCEPT !.buf = memcpy(c.buf, c.bytes_provided, c.buffer, c.pos, k),
                         !.pos = c.pos + k,
                         !.bytes_provided = c.bytes_provided + k],
         req |-> << >>]

\* mutant: the copy moves the shared cursor in the same step as the memcpy
template_rand_bytes_copy_read_moves(c) ==
    LET avail == c.len - c.pos
        bytes_needed == c.num - c.bytes_provided
        k == IF avail > bytes_needed THEN bytes_needed ELSE avail
    IN  [c |-> [c EXCEPT !.buf = memcpy(c.buf, c.bytes_provided, c.buffer, c.pos, k),
                         !.pos = c.pos + k,
                         !.bytes_to_copy = k,
                         !.pc = "copy_advance"],
         req |-> << >>]

\* template_rand_bytes, the copy statement by statement: the size is
\* computed from the shared length and cursor and the bytes are copied ...
template_rand_bytes_copy_read(c) ==
    LET avail == c.len - c.pos
        bytes_needed == c.num - c.bytes_provided
        k == IF avail > bytes_needed THEN bytes_needed ELSE avail
    IN  [c |-> [c EXCEPT !.buf = memcpy(c.buf, c.bytes_provided, c.buffer, c.pos, k),
                         !.bytes_to_copy = k,
                         !.pc = "copy_advance"],
         req |-> << >>]

\* ... then the shared cursor and the local count are advanced
template_rand_bytes_copy_advance(c) ==
    [c |-> [c EXCEPT !.pos = c.pos + c.bytes_to_copy,
                     !.bytes_provided = c.bytes_provided + c.bytes_to_copy,
                     !.bytes_to_copy = 0,
                     !.pc = "loop"],
     req |-> << >>]

\* mutant: at the end of the loop the call reports whether it produced bytes
template_rand_bytes_exit_produced(c) ==
    [c |-> [c EXCEPT !.pc = "ret", !.ret = IF c.bytes_provided > 0 THEN 1 ELSE 0],
     req |-> << >>]

\* template_rand_bytes: the loop condition fails, return 1
template_rand_bytes_exit(c) ==
    [c |-> [c EXCEPT !.pc = "ret", !.ret = 1], req |-> << >>]

\* mutant: the loop fetches as soon as the block holds fewer bytes than
\* are still asked for
Kind_refill_early(c) ==
    IF c.pc # "loop" THEN c.pc
    ELSE IF c.bytes_provided >= c.num THEN "exit"
    ELSE IF c.len - c.pos < c.num - c.bytes_provided THEN "fetch"
    ELSE "copy"

\* where the call stands: the statement of template_rand_bytes or
\* template_engine_connect it executes next
Kind(c) ==
    IF c.pc # "loop" THEN c.pc
    ELSE IF c.bytes_provided >= c.num THEN "exit"
    ELSE IF c.pos >= c.len THEN "fetch"
    ELSE "copy"

\* The responses one call will receive: env.open, env.confirm and env.close
\* for the three requests of the open protocol, and for the i-th fetch the
\* raw block length env.lens[..] (cyclically; 0 is a failing fetch), the
\* blocks being numbered after the env.base + env.off handed out before and
\* the service failing every fetch after block env.cap.
FetchResponse(env, i) ==
    LET n == env.off + i
        L == env.lens[((n - 1) % Len(env.lens)) + 1]
    IN  IF L > 0 /\ env.base + n <= env.cap THEN KeyResponse(env.base + n, L) ELSE Http500

RECURSIVE RunCall(_, _, _, _)
\* the rest of a call: c after the requests in log, of which i - 1 fetches
RunCall(c, env, i, log) ==
    LET k == Kind(c)
    IN  IF k \notin {"connect_open", "connect_blocking", "connect_err", "connect_free",
                     "fetch", "copy", "exit"}
        THEN [c |-> c, reqs |-> log, used |-> i - 1]
        ELSE LET o == CASE k = "connect_open" -> template_engine_connect_open(c, env.open)
                        [] k = "connect_blocking" -> template_engine_connect_blocking(c, env.confirm)
                        [] k = "connect_err" -> template_engine_connect_err(c, env.close)
                        [] k = "connect_free" -> template_engine_connect_free(c)
                        [] k = "fetch" -> template_rand_bytes_fetch(c, FetchResponse(env, i))
                        [] k = "copy" -> template_rand_bytes_copy(c)
                        [] k = "exit" -> template_rand_bytes_exit(c)
             IN  RunCall(o.c, env, IF k = "fetch" THEN i + Len(o.req) ELSE i, log \o o.req)

\* template_rand_bytes(buf, n) from entry to return
template_rand_bytes(c, n, env) == RunCall(template_rand_bytes_enter(c, n), env, 1, << >>)

\* mutant: seeding discards the buffered key
template_rand_seed_discard(c, n) ==
    [c EXCEPT !.buffer = << >>, !.len = 0, !.pos = 0, !.ret = 1]

\* template_rand_seed: the arguments are not read
template_rand_seed(c, n) == [c EXCEPT !.ret = 1]

\* template_rand_add: the arguments are not read
template_rand_add(c, n, entropy) == [c EXCEPT !.ret = 1]

\* mutant: the status also asks for an open session
template_rand_status_connected(c) == IF c.url # NULL /\ c.handle # NULL THEN 1 ELSE 0

\* template_rand_status
template_rand_status(c) == IF c.url # NULL THEN 1 ELSE 0

\* template_engine_ctrl: p = NULL is the NULL argument; dup is what strdup returns
template_engine_ctrl(c, cmd, p, dup) ==
    IF cmd # 1 \/ p = NULL THEN [c EXCEPT !.ret = 0]
    ELSE IF dup = NULL THEN [c EXCEPT !.url = NULL, !.ret = 0]
    ELSE [c EXCEPT !.url = dup, !.ret = 1]

\* template_engine_destroy
template_engine_destroy(c, resp) ==
    LET r == template_engine_close(c, resp)
    IN  [c |-> [r.c EXCEPT !.url = NULL, !.ret = 1], req |-> r.req]

(* ------------------------------------------------------------------ *)
(* remote_qkd_engine.c: the remote key engine.  Its globals are         *)
(* alice_url, bob_url and key_handle; e is the record of the three.     *)
(* ------------------------------------------------------------------ *)

\* the handles a response to OPEN_SESSION may name; -1 is what the parser
\* returns for an error
RemoteHandles == {-1, 1, 2}

\* a response of the key service: status (0 a transport failure) and body:
\* "empty", "junk", "handle" (a key_handle field with value h), "pem" (a
\* key_buffer field with a PEM key), "notpem" (a key_buffer field with
\* something else)
RemoteResponse(code, body, h) == [code |-> code, body |-> body, h |-> h]

RemoteResponses ==
    {RemoteResponse(0, "empty", -1), RemoteResponse(500, "junk", -1),
     RemoteResponse(200, "empty", -1), RemoteResponse(200, "junk", -1),
     RemoteResponse(200, "pem", -1), RemoteResponse(200, "notpem", -1)}
    \cup {RemoteResponse(200, "handle", h) : h \in RemoteHandles}

\* write_callback writes the terminator at strlen(*buffer) + total_size
\* after the copy, past the end of the allocation, and reads strlen of
\* memory it has not written: the body arrives intact, or garbled, or the
\* process dies on the corrupted heap
BodyOutcomes == {"intact", "garbled", "crash"}

\* snprintf("%s/qkd_close", url) with url NULL: the C library prints
\* "(null)", or the process dies
NullArgOutcomes == {"(null)", "crash"}

\* http_request: NULL (body "none") when the transfer fails, when the
\* status is not 200 and when no body byte arrived; otherwise the body as
\* write_callback leaves it
http_request(url, resp, ub) ==
    IF url = NULL \/ resp.code # 200 \/ resp.body = "empty"
    THEN [body |-> "none", h |-> -1, crashed |-> FALSE]
    ELSE IF ub = "crash" THEN [body |-> "none", h |-> -1, crashed |-> TRUE]
    ELSE IF ub = "garbled" THEN [body |-> "junk", h |-> -1, crashed |-> FALSE]
    ELSE [body |-> resp.body, h |-> resp.h, crashed |-> FALSE]

\* parse_key_handle_from_json: the number after "key_handle":, -1 when the
\* field is missing or is no number
parse_key_handle_from_json(r) == IF r.body = "handle" THEN r.h ELSE -1

\* parse_key_from_json: the text of the key_buffer field, NULL without it
parse_key_from_json(r) == IF r.body \in {"pem", "notpem"} THEN r.body ELSE "none"

\* the record of one request of the remote key engine
RemoteRequest(o, url, handle, resp) ==
    [op |-> o, url |-> url, handle |-> handle, code |-> resp.code]

\* the requests one http_request puts on the wire: none without a URL to
\* send it to
RemoteSent(o, url, handle, resp) ==
    IF url = NULL THEN << >> ELSE << RemoteRequest(o, url, handle, resp) >>

\* the result of a call: the globals e, the value returned, the error
\* raised, the requests sent, and whether the process died in the call
RemoteResult(e, r, err, req, crashed) ==
    [e |-> e, ret |-> r, err |-> err, req |-> req, crashed |-> crashed]

\* engine_remote_qkd_ctrl, SET_ALICE_URL and SET_BOB_URL: dup is strdup's
\* result
engine_remote_qkd_ctrl_set_url(e, cmd, p, dup) ==
    IF p = NULL THEN RemoteResult(e, 0, "none", << >>, FALSE)
    ELSE LET e1 == IF cmd = 1 THEN [e EXCEPT !.alice_url = dup]
                              ELSE [e EXCEPT !.bob_url = dup]
         IN  RemoteResult(e1, IF dup = NULL THEN 0 ELSE 1, "none", << >>, FALSE)

\* engine_remote_qkd_ctrl, OPEN_SESSION
engine_remote_qkd_ctrl_open(e, resp, ub) ==
    LET r == http_request(e.alice_url, resp, ub)
        req == RemoteSent("open", e.alice_url, -1, resp)
        h == parse_key_handle_from_json(r)
    IN  IF r.crashed THEN RemoteResult(e, 0, "none", req, TRUE)
        ELSE IF r.body = "none" THEN RemoteResult(e, 0, "none", req, FALSE)
        ELSE RemoteResult([e EXCEPT !.key_handle = h], IF h # -1 THEN 1 ELSE 0,
                          "none", req, FALSE)

\* engine_remote_qkd_ctrl, CLOSE_SESSION: both close requests, then the
\* handle is reset whatever they returned
engine_remote_qkd_ctrl_close(e, ra, rb, ua, ub, na) ==
    LET a == http_request(e.alice_url, ra, ua)
        b == http_request(e.bob_url, rb, ub)
        reqA == RemoteSent("close", e.alice_url, -1, ra)
        reqB == RemoteSent("close", e.bob_url, -1, rb)
    IN  IF (e.alice_url = NULL \/ e.bob_url = NULL) /\ na = "crash"
        THEN RemoteResult(e, 0, "none", << >>, TRUE)
        ELSE IF a.crashed THEN RemoteResult(e, 0, "none", reqA, TRUE)
        ELSE IF b.crashed THEN RemoteResult(e, 0, "none", reqA \o reqB, TRUE)
        ELSE RemoteResult([e EXCEPT !.key_handle = -1], 1, "none", reqA \o reqB, FALSE)

\* engine_remote_qkd_ctrl, any other command
engine_remote_qkd_ctrl_default(e) == RemoteResult(e, 0, "none", << >>, FALSE)

\* the load of a key from the service at url; ret 1 stands for a key
\* returned, 0 for NULL
LoadKey(e, url, failed, resp, ub) ==
    IF url = NULL \/ e.key_handle = -1
    THEN RemoteResult(e, 0, "UNINITIALIZED", << >>, FALSE)
    ELSE LET r == http_request(url, resp, ub)
             req == << RemoteRequest("get_key", url, e.key_handle, resp) >>
             pem == parse_key_from_json(r)
         IN  IF r.crashed THEN RemoteResult(e, 0, "none", req, TRUE)
             ELSE IF r.body = "none" THEN RemoteResult(e, 0, failed, req, FALSE)
             ELSE IF pem = "none" THEN RemoteResult(e, 0, failed, req, FALSE)
             ELSE IF pem # "pem" THEN RemoteResult(e, 0, "ASN1_LIB", req, FALSE)
             ELSE RemoteResult(e, 1, "none", req, FALSE)

\* mutant: the private key is requested whenever Alice's URL is set
engine_remote_qkd_load_privkey_unchecked(e, resp, ub) ==
    IF e.alice_url = NULL
    THEN RemoteResult(e, 0, "UNINITIALIZED", << >>, FALSE)
    ELSE LET r == http_request(e.alice_url, resp, ub)
             req == << RemoteRequest("get_key", e.alice_url, e.key_handle, resp) >>
             pem == parse_key_from_json(r)
         IN  IF r.crashed THEN RemoteResult(e, 0, "none", req, TRUE)
             ELSE IF r.body = "none" \/ pem = "none"
             THEN RemoteResult(e, 0, "FAILED_LOAD_PRIVATE_KEY", req, FALSE)
             ELSE IF pem # "pem" THEN RemoteResult(e, 0, "ASN1_LIB", req, FALSE)
             ELSE RemoteResult(e, 1, "none", req, FALSE)

\* engine_remote_qkd_load_privkey
engine_remote_qkd_load_privkey(e, resp, ub) ==
    LoadKey(e, e.alice_url, "FAILED_LOAD_PRIVATE_KEY", resp, ub)

\* engine_remote_qkd_load_pubkey
engine_remote_qkd_load_pubkey(e, resp, ub) ==
    LoadKey(e, e.bob_url, "FAILED_LOAD_PUBLIC_KEY", resp, ub)

\* engine_remote_qkd_finish
engine_remote_qkd_finish(e) ==
    RemoteResult([e EXCEPT !.alice_url = NULL, !.bob_url = NULL, !.key_handle = -1],
                 1, "none", << >>, FALSE)

\* no call of the remote key engine in progress, none made before
NoCall == [pc |-> "idle", op |-> "none", ret |-> 0, err |-> "none", reqs |-> << >>,
           prev |-> "none", opened |-> FALSE]

\* the remote key engine as loaded and not yet used
RemoteIdle ==
    /\ alice_url = NULL
    /\ bob_url = NULL
    /\ key_handle = -1
    /\ remote = NoCall

(* ------------------------------------------------------------------ *)
(* The state machine                                                   *)
(* ------------------------------------------------------------------ *)

\* the engine state as thread t sees it
C(t) ==
    [url |-> qkd_service_url, handle |-> qkd_key_handle, buffer |-> qkd_key_buffer,
     len |-> qkd_key_buffer_len, pos |-> qkd_key_buffer_pos,
     pc |-> pc[t], num |-> num[t], bytes_provided |-> bytes_provided[t],
     bytes_to_copy |-> bytes_to_copy[t], buf |-> buf[t], ret |-> ret[t]]

RECURSIVE SessionAfter(_, _)
\* history: the session is Open once the confirmation succeeded, Closed once
\* a close request was sent for it
SessionAfter(s, req) ==
    IF req = << >> THEN s
    ELSE SessionAfter(IF req[1].op = "connect" /\ req[1].ok THEN "Open"
                      ELSE IF req[1].op = "close" /\ s = "Open" THEN "Closed"
                      ELSE s,
                      Tail(req))

\* thread t leaves the engine in state c
Store(t, c) ==
    /\ qkd_service_url' = c.url
    /\ qkd_key_handle' = c.handle
    /\ qkd_key_buffer' = c.buffer
    /\ qkd_key_buffer_len' = c.len
    /\ qkd_key_buffer_pos' = c.pos
    /\ pc' = [pc EXCEPT ![t] = c.pc]
    /\ num' = [num EXCEPT ![t] = c.num]
    /\ bytes_provided' = [bytes_provided EXCEPT ![t] = c.bytes_provided]
    /\ bytes_to_copy' = [bytes_to_copy EXCEPT ![t] = c.bytes_to_copy]
    /\ buf' = [buf EXCEPT ![t] = c.buf]
    /\ ret' = [ret EXCEPT ![t] = c.ret]
    /\ UNCHANGED remote_vars

\* thread t's step took the engine to out.c and sent out.req
Apply(t, out) ==
    /\ Store(t, out.c)
    /\ reqs' = reqs \o out.req
    /\ session' = SessionAfter(session, out.req)

\* a call that runs in one step: it ends at its return
Whole(c) == [c EXCEPT !.pc = "ret"]

Init ==
    /\ qkd_service_url = NULL
    /\ qkd_key_handle = NULL
    /\ qkd_key_buffer = << >>
    /\ qkd_key_buffer_len = 0
    /\ qkd_key_buffer_pos = 0
    /\ pc = [t \in Threads |-> "idle"]
    /\ op = [t \in Threads |-> "none"]
    /\ num = [t \in Threads |-> 0]
    /\ bytes_provided = [t \in Threads |-> 0]
    /\ bytes_to_copy = [t \in Threads |-> 0]
    /\ buf = [t \in Threads |-> << >>]
    /\ ret = [t \in Threads |-> 0]
    /\ reqs = << >>
    /\ session = "Disconnected"
    /\ served = 0
    /\ calls = << >>
    /\ fetched = << >>
    /\ nfetch = 0
    /\ delivered = 0
    /\ RemoteIdle

\* random_bytes(buf, n) is called
RandBytes(t) ==
    /\ pc[t] = "idle"
    /\ qkd_key_handle = NULL \/ Len(calls) < MaxCalls
    /\ \E n \in NumVals :
        /\ Apply(t, [c |-> template_rand_bytes_enter(C(t), n), req |-> << >>])
        /\ calls' = IF qkd_key_handle = NULL THEN << n >> ELSE Append(calls, n)
    /\ fetched' = IF qkd_key_handle = NULL THEN << >> ELSE fetched
    /\ nfetch' = IF qkd_key_handle = NULL THEN 0 ELSE nfetch
    /\ delivered' = IF qkd_key_handle = NULL THEN 0 ELSE delivered
    /\ op' = [op EXCEPT ![t] = "random_bytes"]
    /\ UNCHANGED served

ConnectOpen(t) ==
    /\ Kind(C(t)) = "connect_open"
    /\ \E resp \in OpenResponses : Apply(t, template_engine_connect_open(C(t), resp))
    /\ UNCHANGED << op, served, calls, fetched, nfetch, delivered >>

ConnectBlocking(t) ==
    /\ Kind(C(t)) = "connect_blocking"
    /\ \E resp \in PlainResponses : Apply(t, template_engine_connect_blocking(C(t), resp))
    /\ UNCHANGED << op, served, calls, fetched, nfetch, delivered >>

ConnectErr(t) ==
    /\ Kind(C(t)) = "connect_err"
    /\ \E resp \in PlainResponses : Apply(t, template_engine_connect_err(C(t), resp))
    /\ UNCHANGED << op, served, calls, fetched, nfetch, delivered >>

ConnectFree(t) ==
    /\ Kind(C(t)) = "connect_free"
    /\ Apply(t, template_engine_connect_free(C(t)))
    /\ UNCHANGED << op, served, calls, fetched, nfetch, delivered >>

\* the loop of random_bytes fetches: the service fails ...
FetchFails(t) ==
    /\ Kind(C(t)) = "fetch"
    /\ \E resp \in FetchFailures :
        LET out == template_rand_bytes_fetch(C(t), resp)
        IN  /\ Apply(t, out)
            /\ nfetch' = nfetch + Len(out.req)
    /\ UNCHANGED << op, served, calls, fetched, delivered >>

\* ... or answers with the next key block
FetchKey(t) ==
    /\ Kind(C(t)) = "fetch"
    /\ served < MaxKeys
    /\ qkd_service_url # NULL
    /\ qkd_key_handle # NULL
    /\ \E L \in KeyLens :
        /\ Apply(t, template_rand_bytes_fetch(C(t), KeyResponse(served + 1, L)))
        /\ served' = served + 1
        /\ fetched' = Append(fetched, L)
        /\ nfetch' = nfetch + 1
    /\ UNCHANGED << op, calls, delivered >>

Copy(t) ==
    /\ Kind(C(t)) = "copy"
    /\ Apply(t, template_rand_bytes_copy(C(t)))
    /\ UNCHANGED << op, served, calls, fetched, nfetch, delivered >>

LoopExit(t) ==
    /\ Kind(C(t)) = "exit"
    /\ Apply(t, template_rand_bytes_exit(C(t)))
    /\ UNCHANGED << op, served, calls, fetched, nfetch, delivered >>

\* the call returns to the host; its locals die
Return(t) ==
    /\ pc[t] = "ret"
    /\ pc' = [pc EXCEPT ![t] = "idle"]
    /\ op' = [op EXCEPT ![t] = "none"]
    /\ num' = [num EXCEPT ![t] = 0]
    /\ bytes_provided' = [bytes_provided EXCEPT ![t] = 0]
    /\ bytes_to_copy' = [bytes_to_copy EXCEPT ![t] = 0]
    /\ buf' = [buf EXCEPT ![t] = << >>]
    /\ ret' = [ret EXCEPT ![t] = 0]
    /\ reqs' = << >>
    /\ calls' = IF qkd_key_handle = NULL THEN << >> ELSE calls
    /\ fetched' = IF qkd_key_handle = NULL THEN << >> ELSE fetched
    /\ nfetch' = IF qkd_key_handle = NULL THEN 0 ELSE nfetch
    /\ delivered' = IF qkd_key_handle = NULL THEN 0 ELSE delivered + bytes_provided[t]
    /\ UNCHANGED << qkd_service_url, qkd_key_handle, qkd_key_buffer, qkd_key_buffer_len,
                    qkd_key_buffer_pos, session, served >>
    /\ UNCHANGED remote_vars

\* cleanup(): template_rand_cleanup
Cleanup(t) ==
    /\ pc[t] = "idle"
    /\ \E resp \in PlainResponses :
        LET r == template_engine_close(C(t), resp)
        IN  Apply(t, [c |-> Whole(r.c), req |-> r.req])
    /\ op' = [op EXCEPT ![t] = "cleanup"]
    /\ UNCHANGED << served, calls, fetched, nfetch, delivered >>

\* engine destroy
Destroy(t) ==
    /\ pc[t] = "idle"
    /\ \E resp \in PlainResponses :
        LET r == template_engine_destroy(C(t), resp)
        IN  Apply(t, [c |-> Whole(r.c), req |-> r.req])
    /\ op' = [op EXCEPT ![t] = "destroy"]
    /\ UNCHANGED << served, calls, fetched, nfetch, delivered >>

\* configure: the control command, with its argument and strdup's result
Ctrl(t) ==
    /\ pc[t] = "idle"
    /\ \E cmd \in {1, 2}, p \in URLs \cup {NULL}, ok \in BOOLEAN :
        Apply(t, [c |-> Whole(template_engine_ctrl(C(t), cmd, p, IF ok THEN p ELSE NULL)),
                  req |-> << >>])
    /\ op' = [op EXCEPT ![t] = "ctrl"]
    /\ UNCHANGED << served, calls, fetched, nfetch, delivered >>

\* seed(): template_rand_seed
Seed(t) ==
    /\ pc[t] = "idle"
    /\ \E n \in NumVals :
        Apply(t, [c |-> Whole(template_rand_seed(C(t), n)), req |-> << >>])
    /\ op' = [op EXCEPT ![t] = "seed"]
    /\ UNCHANGED << served, calls, fetched, nfetch, delivered >>

\* add_entropy(): template_rand_add
Add(t) ==
    /\ pc[t] = "idle"
    /\ \E n \in NumVals, entropy \in {0, 1} :
        Apply(t, [c |-> Whole(template_rand_add(C(t), n, entropy)), req |-> << >>])
    /\ op' = [op EXCEPT ![t] = "add"]
    /\ UNCHANGED << served, calls, fetched, nfetch, delivered >>

\* status(): template_rand_status
Status(t) ==
    /\ pc[t] = "idle"
    /\ Apply(t, [c |-> Whole([C(t) EXCEPT !.ret = template_rand_status(C(t))]), req |-> << >>])
    /\ op' = [op EXCEPT ![t] = "status"]
    /\ UNCHANGED << served, calls, fetched, nfetch, delivered >>

Next ==
    \E t \in Callers :
        \/ RandBytes(t)
        \/ ConnectOpen(t)
        \/ ConnectBlocking(t)
        \/ ConnectErr(t)
        \/ ConnectFree(t)
        \/ FetchFails(t)
        \/ FetchKey(t)
        \/ Copy(t)
        \/ LoopExit(t)
        \/ Return(t)
        \/ Cleanup(t)
        \/ Destroy(t)
        \/ Ctrl(t)
        \/ Seed(t)
        \/ Add(t)
        \/ Status(t)

Spec == Init /\ [][Next]_vars

(* ------------------------------------------------------------------ *)
(* random_bytes alone, with the scheduling the code relies on: the     *)
(* calling thread keeps running and every round-trip returns.          *)
(* ------------------------------------------------------------------ *)

\* the URL may have been configured before
LiveInit ==
    /\ qkd_service_url \in {NULL, 1}
    /\ qkd_key_handle = NULL
    /\ qkd_key_buffer = << >>
    /\ qkd_key_buffer_len = 0
    /\ qkd_key_buffer_pos = 0
    /\ pc = [t \in Threads |-> "idle"]
    /\ op = [t \in Threads |-> "none"]
    /\ num = [t \in Threads |-> 0]
    /\ bytes_provided = [t \in Threads |-> 0]
    /\ bytes_to_copy = [t \in Threads |-> 0]
    /\ buf = [t \in Threads |-> << >>]
    /\ ret = [t \in Threads |-> 0]
    /\ reqs = << >>
    /\ session = "Disconnected"
    /\ served = 0
    /\ calls = << >>
    /\ fetched = << >>
    /\ nfetch = 0
    /\ delivered = 0
    /\ RemoteIdle

\* the service hands out LiveKeys blocks and fails every fetch after them
LiveFetchKey(t) ==
    /\ served < LiveKeys
    /\ FetchKey(t)

\* one statement of a call in progress
Step(t) ==
    \/ ConnectOpen(t)
    \/ ConnectBlocking(t)
    \/ ConnectErr(t)
    \/ ConnectFree(t)
    \/ FetchFails(t)
    \/ LiveFetchKey(t)
    \/ Copy(t)
    \/ LoopExit(t)

LiveNext ==
    \E t \in Callers :
        \/ RandBytes(t)
        \/ Step(t)
        \/ Return(t)

SpecLive == LiveInit /\ [][LiveNext]_vars /\ \A t \in Callers : WF_vars(Step(t))

(* ------------------------------------------------------------------ *)
(* The engine with every call, from entry to return, as one step (the  *)
(* session histories calls, fetched, nfetch and delivered are not kept *)
(* here).                                                              *)
(* ------------------------------------------------------------------ *)

\* the call has returned: its locals are gone
Finish(c) ==
    [c EXCEPT !.pc = "idle", !.num = 0, !.bytes_provided = 0, !.bytes_to_copy = 0,
              !.buf = << >>, !.ret = 0]

\* thread t's whole call took the engine to c and sent the requests log
ApplyWhole(t, c, log) ==
    /\ Store(t, Finish(c))
    /\ session' = SessionAfter(session, log)
    /\ served' = served + Cardinality({i \in 1..Len(log) : log[i].op = "get_key" /\ log[i].ok})
    /\ UNCHANGED << op, reqs, calls, fetched, nfetch, delivered >>

\* the responses a call can tell apart: a request that is not sent has
\* no response to choose
Relevant(c, n, env) ==
    /\ (c.handle # NULL \/ c.url = NULL) => env.open = TransportFailure
    /\ ~ Answered("open", env.open) => env.confirm = TransportFailure
    /\ (~ Answered("open", env.open) \/ Answered("connect", env.confirm))
          => env.close = TransportFailure
    /\ (n = 0 \/ env.lens[1] = 0) => \A i \in DOMAIN env.lens : env.lens[i] = 0

CallRandBytes(t) ==
    /\ pc[t] = "idle"
    /\ \E n \in NumVals, o \in OpenResponses, cf \in PlainResponses, cl \in PlainResponses,
          lens \in [1..MaxPeriod -> KeyLens \cup {0}] :
        LET env == [open |-> o, confirm |-> cf, close |-> cl, lens |-> lens,
                    base |-> served, off |-> 0, cap |-> MaxKeys]
        IN  /\ Relevant(C(t), n, env)
            /\ LET r == template_rand_bytes(C(t), n, env)
               IN  ApplyWhole(t, r.c, r.reqs)

CallCleanup(t) ==
    /\ pc[t] = "idle"
    /\ \E resp \in PlainResponses :
        LET r == template_engine_close(C(t), resp)
        IN  ApplyWhole(t, r.c, r.req)

CallDestroy(t) ==
    /\ pc[t] = "idle"
    /\ \E resp \in PlainResponses :
        LET r == template_engine_destroy(C(t), resp)
        IN  ApplyWhole(t, r.c, r.req)

CallCtrl(t) ==
    /\ pc[t] = "idle"
    /\ \E cmd \in {1, 2}, p \in URLs \cup {NULL}, ok \in BOOLEAN :
        ApplyWhole(t, template_engine_ctrl(C(t), cmd, p, IF ok THEN p ELSE NULL), << >>)

NextWhole ==
    \E t \in Callers :
        \/ CallRandBytes(t)
        \/ CallCleanup(t)
        \/ CallDestroy(t)
        \/ CallCtrl(t)

SpecWhole == Init /\ [][NextWhole]_vars

(* ------------------------------------------------------------------ *)
(* Two threads calling into the engine with no lock (the globals are   *)
(* not protected).  The threads interleave at the statements of the    *)
(* model: each request, and the two halves of the copy.  Here reqs is  *)
(* the log of every request of the run, and calls the num arguments of *)
(* every random_bytes call of the run.                                 *)
(* ------------------------------------------------------------------ *)

\* a URL has been configured
RaceInit ==
    /\ qkd_service_url = 1
    /\ qkd_key_handle = NULL
    /\ qkd_key_buffer = << >>
    /\ qkd_key_buffer_len = 0
    /\ qkd_key_buffer_pos = 0
    /\ pc = [t \in Threads |-> "idle"]
    /\ op = [t \in Threads |-> "none"]
    /\ num = [t \in Threads |-> 0]
    /\ bytes_provided = [t \in Threads |-> 0]
    /\ bytes_to_copy = [t \in Threads |-> 0]
    /\ buf = [t \in Threads |-> << >>]
    /\ ret = [t \in Threads |-> 0]
    /\ reqs = << >>
    /\ session = "Disconnected"
    /\ served = 0
    /\ calls = << >>
    /\ fetched = << >>
    /\ nfetch = 0
    /\ delivered = 0
    /\ RemoteIdle

\* the service gives every session it opens a handle of its own
NextHandle == 1 + Cardinality({i \in 1..Len(reqs) : reqs[i].op = "open" /\ reqs[i].ok})

\* thread t calls random_bytes(buf, n)
RaceCall(t) ==
    /\ pc[t] = "idle"
    /\ Len(calls) < MaxRaceCalls
    /\ \E n \in RaceNums :
        /\ Apply(t, [c |-> template_rand_bytes_enter(C(t), n), req |-> << >>])
        /\ calls' = Append(calls, n)
    /\ op' = [op EXCEPT ![t] = "random_bytes"]
    /\ UNCHANGED << served, fetched, nfetch, delivered >>

\* the open request of thread t fails or is answered with a new handle
RaceOpen(t) ==
    /\ Kind(C(t)) = "connect_open"
    /\ \E resp \in {Http500} \cup {OkHandle(h) : h \in {NextHandle} \cap Handles} :
        Apply(t, template_engine_connect_open(C(t), resp))
    /\ UNCHANGED << op, served, calls, fetched, nfetch, delivered >>

\* the confirmation of thread t fails or succeeds
RaceConfirm(t) ==
    /\ Kind(C(t)) = "connect_blocking"
    /\ \E resp \in {Http500, Http200} :
        Apply(t, template_engine_connect_blocking(C(t), resp))
    /\ UNCHANGED << op, served, calls, fetched, nfetch, delivered >>

\* the cleanup close of thread t
RaceErr(t) ==
    /\ Kind(C(t)) = "connect_err"
    /\ Apply(t, template_engine_connect_err(C(t), Http200))
    /\ UNCHANGED << op, served, calls, fetched, nfetch, delivered >>

\* the loop of thread t fetches and the service fails
RaceFetchFails(t) ==
    /\ Kind(C(t)) = "fetch"
    /\ LET out == template_rand_bytes_fetch(C(t), Http500)
       IN  /\ Apply(t, out)
           /\ nfetch' = nfetch + Len(out.req)
    /\ UNCHANGED << op, served, calls, fetched, delivered >>

\* thread t calls cleanup()
RaceCleanup(t) ==
    /\ pc[t] = "idle"
    /\ LET r == template_engine_close(C(t), Http200)
       IN  Apply(t, [c |-> Whole(r.c), req |-> r.req])
    /\ op' = [op EXCEPT ![t] = "cleanup"]
    /\ UNCHANGED << served, calls, fetched, nfetch, delivered >>

\* the loop of thread t fetches and the service answers with the next block
RaceFetchKey(t) ==
    /\ Kind(C(t)) = "fetch"
    /\ served < MaxKeys
    /\ qkd_service_url # NULL
    /\ qkd_key_handle # NULL
    /\ \E L \in RaceLens :
        /\ Apply(t, template_rand_bytes_fetch(C(t), KeyResponse(served + 1, L)))
        /\ served' = served + 1
        /\ fetched' = Append(fetched, L)
        /\ nfetch' = nfetch + 1
    /\ UNCHANGED << op, calls, delivered >>

\* thread t computes the size of its copy and copies
RaceCopyRead(t) ==
    /\ Kind(C(t)) = "copy"
    /\ Apply(t, template_rand_bytes_copy_read(C(t)))
    /\ UNCHANGED << op, served, calls, fetched, nfetch, delivered >>

\* thread t advances the cursor and its count
RaceCopyAdvance(t) ==
    /\ Kind(C(t)) = "copy_advance"
    /\ Apply(t, template_rand_bytes_copy_advance(C(t)))
    /\ UNCHANGED << op, served, calls, fetched, nfetch, delivered >>

\* the call of thread t returns to the host; its locals die
RaceReturn(t) ==
    /\ pc[t] = "ret"
    /\ Store(t, Finish(C(t)))
    /\ op' = [op EXCEPT ![t] = "none"]
    /\ UNCHANGED << reqs, session, served, calls, fetched, nfetch, delivered >>

RaceNext ==
    \E t \in Threads :
        \/ RaceCall(t)
        \/ RaceOpen(t)
        \/ RaceConfirm(t)
        \/ RaceErr(t)
        \/ ConnectFree(t)
        \/ RaceFetchFails(t)
        \/ RaceFetchKey(t)
        \/ RaceCopyRead(t)
        \/ RaceCopyAdvance(t)
        \/ LoopExit(t)
        \/ RaceReturn(t)
        \/ RaceCleanup(t)

SpecRace == RaceInit /\ [][RaceNext]_vars

(* ------------------------------------------------------------------ *)
(* The remote key engine (remote_qkd_engine.c), one caller, every call *)
(* from entry to return as one step.  The random-byte engine is not     *)
(* used.                                                                *)
(* ------------------------------------------------------------------ *)

\* the variables of the random-byte engine
template_vars == << qkd_service_url, qkd_key_handle, qkd_key_buffer, qkd_key_buffer_len,
                    qkd_key_buffer_pos, pc, op, num, bytes_provided, bytes_to_copy,
                    buf, ret, reqs, session, served, calls, fetched, nfetch, delivered >>

\* the globals of the remote key engine
RemoteGlobals == [alice_url |-> alice_url, bob_url |-> bob_url, key_handle |-> key_handle]

\* history: a session is open from an OPEN_SESSION that returned 1 to the
\* next CLOSE_SESSION or finish that returned
OpenedAfter(o, out) ==
    IF out.crashed THEN remote.opened
    ELSE IF o = "open" /\ out.ret = 1 THEN TRUE
    ELSE IF o \in {"close", "finish"} THEN FALSE
    ELSE remote.opened

\* the call o ran from entry to return (or to the death of the process)
\* with the result out
RemoteApply(o, out) ==
    /\ remote.pc = "idle"
    /\ alice_url' = out.e.alice_url
    /\ bob_url' = out.e.bob_url
    /\ key_handle' = out.e.key_handle
    /\ remote' = [pc |-> IF out.crashed THEN "crashed" ELSE "ret", op |-> o,
                  ret |-> out.ret, err |-> out.err, reqs |-> out.req,
                  prev |-> remote.prev, opened |-> OpenedAfter(o, out)]
    /\ UNCHANGED template_vars

\* ENGINE_ctrl(SET_ALICE_URL, p)
SetAliceUrl ==
    \E p \in URLs \cup {NULL}, dup \in BOOLEAN :
        RemoteApply("set_alice_url",
                    engine_remote_qkd_ctrl_set_url(RemoteGlobals, 1, p,
                                                   IF dup THEN p ELSE NULL))

\* ENGINE_ctrl(SET_BOB_URL, p)
SetBobUrl ==
    \E p \in URLs \cup {NULL}, dup \in BOOLEAN :
        RemoteApply("set_bob_url",
                    engine_remote_qkd_ctrl_set_url(RemoteGlobals, 2, p,
                                                   IF dup THEN p ELSE NULL))

\* ENGINE_ctrl(OPEN_SESSION)
OpenSession ==
    \E resp \in RemoteResponses, ub \in BodyOutcomes :
        RemoteApply("open", engine_remote_qkd_ctrl_open(RemoteGlobals, resp, ub))

\* ENGINE_ctrl(CLOSE_SESSION)
CloseSession ==
    \E ra \in RemoteResponses, rb \in RemoteResponses,
       ua \in BodyOutcomes, ub \in BodyOutcomes, na \in NullArgOutcomes :
        RemoteApply("close", engine_remote_qkd_ctrl_close(RemoteGlobals, ra, rb, ua, ub, na))

\* ENGINE_ctrl with a command the engine does not know
UnknownCommand ==
    RemoteApply("unknown", engine_remote_qkd_ctrl_default(RemoteGlobals))

\* ENGINE_load_private_key
LoadPrivkey ==
    \E resp \in RemoteResponses, ub \in BodyOutcomes :
        RemoteApply("load_privkey", engine_remote_qkd_load_privkey(RemoteGlobals, resp, ub))

\* ENGINE_load_public_key
LoadPubkey ==
    \E resp \in RemoteResponses, ub \in BodyOutcomes :
        RemoteApply("load_pubkey", engine_remote_qkd_load_pubkey(RemoteGlobals, resp, ub))

\* ENGINE_finish
RemoteFinish ==
    RemoteApply("finish", engine_remote_qkd_finish(RemoteGlobals))

\* the caller has the result and may call again
RemoteReturn ==
    /\ remote.pc = "ret"
    /\ remote' = [remote EXCEPT !.pc = "idle", !.prev = remote.op]
    /\ UNCHANGED << alice_url, bob_url, key_handle >>
    /\ UNCHANGED template_vars

RemoteNext ==
    \/ SetAliceUrl
    \/ SetBobUrl
    \/ OpenSession
    \/ CloseSession
    \/ UnknownCommand
    \/ LoadPrivkey
    \/ LoadPubkey
    \/ RemoteFinish
    \/ RemoteReturn

SpecRemote == Init /\ [][RemoteNext]_vars

(* ------------------------------------------------------------------ *)
(* What the properties speak about                                     *)
(* ------------------------------------------------------------------ *)

\* thread t's random_bytes call has returned (its result is still visible)
Returned(t) == pc[t] = "ret" /\ op[t] = "random_bytes"

\* the last request of the current call
LastReq == reqs[Len(reqs)]

\* the current call ended because a fetch request failed
FetchFailed == reqs # << >> /\ LastReq.op = "get_key" /\ ~LastReq.ok

RECURSIVE KeyStream(_, _)
\* the bytes of the raw key blocks first, first+1, ... of the given lengths
KeyStream(first, lens) ==
    IF lens = << >> THEN << >>
    ELSE RawKey(first, lens[1]) \o KeyStream(first + 1, Tail(lens))

\* the key bytes the service encoded for this session, in fetch order
SessionKeys == KeyStream(served - Len(fetched) + 1, fetched)

\* bytes still unread in the key buffer
Remaining == qkd_key_buffer_len - qkd_key_buffer_pos

(* ------------------------------------------------------------------ *)
(* Properties                                                          *)
(* ------------------------------------------------------------------ *)

\* C1: whenever random_bytes(buf, n) reports success, exactly n bytes have
\* been written to the caller's buffer.
C1_SuccessFillsBuffer ==
    \A t \in Callers : (Returned(t) /\ ret[t] = 1) => DOMAIN buf[t] = 1..num[t]

\* C2: when a fetch fails after k bytes were produced, the call stops; with
\* 0 < k < n the caller's buffer holds exactly the next k key bytes of the
\* session, in order, and the call reports success; with k = 0 it reports
\* failure.
C2_PartialThenFailed ==
    \A t \in Callers : (Returned(t) /\ FetchFailed) =>
        LET k == bytes_provided[t]
        IN  /\ k < num[t]
            /\ k = 0 => ret[t] = 0
            /\ k > 0 => /\ ret[t] = 1
                        /\ DOMAIN buf[t] = 1..k
                        /\ Len(SessionKeys) >= delivered + k
                        /\ buf[t] = SubSeq(SessionKeys, delivered + 1, delivered + k)

\* C3: random_bytes never produces more bytes than requested: the produced
\* count stays within 0..n and every byte written lands in buf[0..n).
C3_NeverMoreThanRequested ==
    \A t \in Callers :
        /\ 0 <= bytes_provided[t]
        /\ bytes_provided[t] <= num[t]
        /\ DOMAIN buf[t] = 1..bytes_provided[t]

\* C3 witness: a call was satisfied from a block that held more than it
\* still needed, so the copy was cut to the bytes needed.
C3_Witness ==
    \E t \in Callers : Returned(t) /\ ret[t] = 1 /\ bytes_provided[t] = 20 /\ Remaining > 0

\* C7: from no session and an empty buffer, two provide(20) calls against a
\* service that returns 16 bytes on every fetch take exactly 2 fetch
\* round-trips in total and leave 12 bytes in the buffer.
C7_TwoFetchesForTwoCalls ==
    \A t \in Callers :
        ( /\ Returned(t)
          /\ calls = << 20, 20 >>
          /\ nfetch = Len(fetched)
          /\ \A i \in 1..Len(fetched) : fetched[i] = 16 )
        => /\ ret[t] = 1
           /\ bytes_provided[t] = 20
           /\ nfetch = 2
           /\ Remaining = 12

\* C5: no automatic retry: within one call at most one fetch request fails,
\* and after a failed open, confirmation or fetch no further open,
\* confirmation or fetch request is sent before the call returns.
C5_NoRetry ==
    /\ Cardinality({i \in 1..Len(reqs) : reqs[i].op = "get_key" /\ ~reqs[i].ok}) <= 1
    /\ \A i \in 1..Len(reqs) :
        (reqs[i].op \in {"open", "connect", "get_key"} /\ ~reqs[i].ok)
        => \A j \in (i + 1)..Len(reqs) : reqs[j].op = "close"

\* C5 witness: a call fetched a block, delivered from it, then saw a fetch
\* fail and returned.
C5_Witness ==
    \E t \in Callers :
        Returned(t) /\ FetchFailed /\ bytes_provided[t] > 0 /\ Len(reqs) >= 2
        /\ reqs[Len(reqs) - 1].op = "get_key" /\ reqs[Len(reqs) - 1].ok

\* C8: in every reachable state, also between the round-trips of an
\* operation, a handle is held if and only if the session is Open.
C8_HandleIffOpen == (qkd_key_handle # NULL) <=> (session = "Open")

\* the open protocol of thread t is past a successful open request and has
\* not yet returned
Opening(t) == pc[t] \in {"connect_blocking", "connect_err", "connect_free"}

\* C8 (amended): a handle is held if and only if the session is Open or an
\* open protocol is under way past its successful open request.
C8_HandleIffOpenOrOpening ==
    (qkd_key_handle # NULL) <=> (session = "Open" \/ \E t \in Callers : Opening(t))

\* C8 witness: a closed session is being reopened; the new handle is held
\* while its confirmation is pending.
C8_Witness ==
    \E t \in Callers :
        pc[t] = "connect_blocking" /\ qkd_key_handle # NULL /\ session = "Closed"

\* C9: when the open request of random_bytes fails, the call returns failure
\* at once with nothing written, no handle retained, the key buffer as it
\* was, no request other than the open sent, and status() true.
C9_OpenFailure ==
    [][ \A t \in Callers :
          (pc[t] = "connect_open" /\ reqs' # << >> /\ ~reqs'[Len(reqs')].ok)
          => /\ pc'[t] = "ret"
             /\ ret'[t] = 0
             /\ buf'[t] = << >>
             /\ qkd_key_handle' = NULL
             /\ qkd_key_buffer' = qkd_key_buffer
             /\ qkd_key_buffer_len' = qkd_key_buffer_len
             /\ qkd_key_buffer_pos' = qkd_key_buffer_pos
             /\ Len(reqs') = 1
             /\ reqs'[1].op = "open"
             /\ template_rand_status([url |-> qkd_service_url']) = 1 ]_vars

\* C9 witness: the service answered the open with HTTP 200 but no handle
\* field, and the call has returned failure.
C9_Witness ==
    \E t \in Callers :
        /\ Returned(t)
        /\ Len(reqs) = 1
        /\ reqs[1].op = "open"
        /\ reqs[1].code = 200
        /\ ~reqs[1].ok
        /\ ret[t] = 0

C4_Terminates ==
    \A t \in Callers : (pc[t] \notin {"idle", "ret"}) ~> (pc[t] = "ret")

\* C4 witness: the service answered a fetch with HTTP 200 and no usable key
\* (an empty or undecodable block), and the call has returned.
C4_Witness ==
    \E t \in Callers : Returned(t) /\ FetchFailed /\ LastReq.code = 200

\* the bytes a whole call delivered, as a sequence
Delivered(r) == [i \in 1..r.c.bytes_provided |-> r.c.buf[i]]

\* the responses of the concatenation property: every request succeeds
ConcatEnv(h, lens, a, b) ==
    [open |-> OkHandle(h), confirm |-> Http200, close |-> Http200, lens |-> lens,
     base |-> served, off |-> 0, cap |-> served + a + b + 1]

\* C6: from any state, with the same sequence of successful responses,
\* random_bytes(a) then random_bytes(b) delivers the same bytes, leaves the
\* same buffer and cursor and sends the same requests as random_bytes(a + b).
C6_ConcatenationConsistency ==
    \A t \in Callers : pc[t] = "idle" =>
        \A a \in ConcatNums, b \in ConcatNums, h \in Handles,
           lens \in [1..MaxPeriod -> ConcatLens] :
            LET env == ConcatEnv(h, lens, a, b)
                r1 == template_rand_bytes(C(t), a, env)
                r2 == template_rand_bytes(Finish(r1.c), b, [env EXCEPT !.off = r1.used])
                r == template_rand_bytes(C(t), a + b, env)
            IN  /\ Delivered(r1) \o Delivered(r2) = Delivered(r)
                /\ r2.c.buffer = r.c.buffer
                /\ r2.c.len = r.c.len
                /\ r2.c.pos = r.c.pos
                /\ r2.c.handle = r.c.handle
                /\ r1.reqs \o r2.reqs = r.reqs

\* C6 witness: a state with unread bytes in the buffer from which a first
\* call of 4 bytes crosses into a new block and leaves part of it for the
\* second call, which needs one more block.
C6_Witness ==
    \E t \in Callers :
        /\ pc[t] = "idle"
        /\ Remaining > 0
        /\ LET env == ConcatEnv(1, [i \in 1..MaxPeriod |-> 3], 4, 4)
               r1 == template_rand_bytes(C(t), 4, env)
               r2 == template_rand_bytes(Finish(r1.c), 4, [env EXCEPT !.off = r1.used])
           IN  /\ r1.used = 1
               /\ r1.c.ret = 1
               /\ r1.c.pos < r1.c.len
               /\ r2.used = 1
               /\ r2.c.ret = 1

\* C11: after a fetch fails inside random_bytes on an Open session, the
\* session no longer holds a handle (the failure closes the session).
C11_FetchFailureCloses ==
    \A t \in Callers : (Returned(t) /\ FetchFailed) => qkd_key_handle = NULL

\* C12: refill is all-or-nothing: a fetch that fails (no response, a status
\* other than 200, no key field, an empty or undecodable key) signals the
\* error and leaves the key buffer's bytes, length and cursor exactly as
\* they were before the fetch was attempted.
C12_RefillAllOrNothing ==
    [][ \A t \in Callers :
          ( /\ Kind(C(t)) = "fetch"
            /\ Len(reqs') = Len(reqs) + 1
            /\ reqs'[Len(reqs')].op = "get_key"
            /\ ~reqs'[Len(reqs')].ok )
          => /\ pc'[t] = "ret"
             /\ qkd_key_buffer' = qkd_key_buffer
             /\ qkd_key_buffer_len' = qkd_key_buffer_len
             /\ qkd_key_buffer_pos' = qkd_key_buffer_pos ]_vars

\* C13: changing the service URL while a session is Open does not affect
\* that session: after random_bytes has opened a session at the configured
\* URL and set_url has stored another URL, every request of the next
\* random_bytes call and of the following cleanup is sent to the URL the
\* session was opened at.
C13_UrlChangeKeepsEndpoint ==
    \A t \in Callers : (pc[t] = "idle" /\ qkd_key_handle = NULL /\ qkd_service_url # NULL) =>
        \A a \in ConcatNums, b \in ConcatNums, u \in URLs, lens \in [1..MaxPeriod -> ConcatLens] :
            LET env == ConcatEnv(1, lens, a, b)
                r1 == template_rand_bytes(C(t), a, env)
                c2 == template_engine_ctrl(Finish(r1.c), 1, u, u)
                r2 == template_rand_bytes(Finish(c2), b, [env EXCEPT !.off = r1.used])
                r3 == template_engine_close(Finish(r2.c), Http200)
                later == r2.reqs \o r3.req
            IN  r1.c.handle # NULL =>
                    \A i \in 1..Len(later) : later[i].url = r1.reqs[1].url

\* C14: from every reachable state cleanup() leaves no handle held and the
\* buffer empty with cursor 0, and a second cleanup() sends no request and
\* changes no state.
C14_CleanupClosesAll ==
    \A t \in Callers : (pc[t] = "ret" /\ op[t] = "cleanup") =>
        /\ qkd_key_handle = NULL
        /\ qkd_key_buffer = << >>
        /\ qkd_key_buffer_len = 0
        /\ qkd_key_buffer_pos = 0
        /\ \A resp \in PlainResponses :
            LET r == template_engine_close(C(t), resp)
            IN  r.req = << >> /\ r.c = C(t)

ReopenEnv(o, cf, L, a, b) ==
    [open |-> o, confirm |-> cf, close |-> Http200, lens |-> << L >>,
     base |-> served, off |-> 0, cap |-> served + a + b + 1]

\* the handle the latest successful open before request i of log returned
LastOpened(log, i) ==
    LET opens == {j \in 1..(i - 1) : log[j].op = "open" /\ log[j].ok}
    IN  IF opens = {} THEN NULL
        ELSE log[CHOOSE j \in opens : \A k \in opens : k <= j].got

OpenedAt(i) == reqs[i].op = "open" /\ reqs[i].ok

\* C17: two threads calling random_bytes with no session both send an open;
\* the handle of the first open is overwritten by the second: once a second
\* open has returned a handle with no close of the first in between, the
\* first handle is never sent again, in a close or in any other request.
C17_OverwrittenHandleLost ==
    \A i \in 1..Len(reqs), j \in 1..Len(reqs) :
        ( /\ i < j
          /\ OpenedAt(i)
          /\ OpenedAt(j)
          /\ \A m \in (i + 1)..(j - 1) : ~(reqs[m].op = "close" /\ reqs[m].handle = reqs[i].got) )
        => \A k \in (j + 1)..Len(reqs) : reqs[k].handle # reqs[i].got

\* C17 witness: the first two requests of the run are opens of the two
\* threads, answered with different handles; both calls have returned, a
\* cleanup() has closed the second handle, and nothing is held any more:
\* the first handle was never closed.
C17_Witness ==
    /\ Len(reqs) >= 3
    /\ OpenedAt(1)
    /\ OpenedAt(2)
    /\ reqs[1].got # reqs[2].got
    /\ \E k \in 3..Len(reqs) : reqs[k].op = "close" /\ reqs[k].handle = reqs[2].got
    /\ \A k \in 1..Len(reqs) : ~(reqs[k].op = "close" /\ reqs[k].handle = reqs[1].got)
    /\ qkd_key_handle = NULL
    /\ \A t \in Threads : pc[t] = "idle"
    /\ Len(calls) = 2

\* the bytes thread t copied by the memcpy it has just done
LastCopied(t) ==
    SubSeq(buf[t], bytes_provided[t] + 1, bytes_provided[t] + bytes_to_copy[t])

\* C18: two threads in random_bytes() without a lock corrupt the buffer
\* state.  The memcpy of a thread reads the buffer at the shared cursor and
\* leaves cursor, length and buffer as they are; the cursor moves only by
\* the later statement.  So whenever thread u does its memcpy while thread t
\* is between its own memcpy and its cursor update, u reads at the cursor as
\* it stands, and if that is still where t read, u is handed the same key
\* bytes as t.
C18_CopyReadsAtSharedCursor ==
    [][ \A t \in Threads, u \in Threads :
          ( /\ t # u
            /\ pc[t] = "copy_advance"
            /\ pc[u] = "loop"
            /\ pc'[u] = "copy_advance" )
          => /\ qkd_key_buffer_pos' = qkd_key_buffer_pos
             /\ qkd_key_buffer_len' = qkd_key_buffer_len
             /\ qkd_key_buffer' = qkd_key_buffer
             /\ bytes_to_copy'[u] > 0
             /\ LET kt == bytes_to_copy[t]
                    ku == bytes_to_copy'[u]
                    m  == IF kt < ku THEN kt ELSE ku
                    ub == SubSeq(buf'[u], bytes_provided[u] + 1, bytes_provided[u] + ku)
                IN  /\ ub = SubSeq(qkd_key_buffer, qkd_key_buffer_pos + 1, qkd_key_buffer_pos + ku)
                    /\ ( /\ qkd_key_buffer_pos + kt <= Len(qkd_key_buffer)
                          /\ LastCopied(t) = SubSeq(qkd_key_buffer, qkd_key_buffer_pos + 1,
                                                    qkd_key_buffer_pos + kt) )
                       => SubSeq(ub, 1, m) = SubSeq(LastCopied(t), 1, m) ]_vars

\* both callers hold the whole of the one block the service has handed out,
\* and the cursor, advanced once by each, is past the end of the buffer
C18_Witness ==
    /\ served = 1
    /\ \A t \in Threads : pc[t] = "loop" /\ bytes_provided[t] = 3
    /\ buf[1] = buf[2]
    /\ buf[1] = qkd_key_buffer
    /\ Len(qkd_key_buffer) = 3
    /\ qkd_key_buffer_pos = 6
    /\ qkd_key_buffer_len = 3

\* C19: whatever calls came before, status() returns true exactly when a
\* service URL is configured at that moment, whether or not a handle is held.
C19_StatusIffUrl ==
    \A t \in Callers :
        (pc[t] = "ret" /\ op[t] = "status")
        => /\ ret[t] \in {0, 1}
           /\ (ret[t] = 1) <=> (qkd_service_url # NULL)

\* status() has answered true although no session is open
C19_Witness ==
    \E t \in Callers :
        /\ pc[t] = "ret"
        /\ op[t] = "status"
        /\ ret[t] = 1
        /\ qkd_service_url # NULL
        /\ qkd_key_handle = NULL
        /\ session = "Disconnected"

\* C20: a random_bytes(n) call made with no service URL and no handle
\* returns 0 at once: it sends no request, hands out no byte, and leaves the
\* URL, the handle, the buffer, its length and its cursor as they were.
C20_NoUrlFailsQuietly ==
    [][ \A t \in Callers :
          ( /\ pc[t] = "idle"
            /\ op'[t] = "random_bytes"
            /\ qkd_service_url = NULL
            /\ qkd_key_handle = NULL )
          => /\ pc'[t] = "ret"
             /\ ret'[t] = 0
             /\ reqs' = << >>
             /\ buf'[t] = << >>
             /\ bytes_provided'[t] = 0
             /\ session' = session
             /\ UNCHANGED << qkd_service_url, qkd_key_handle, qkd_key_buffer,
                             qkd_key_buffer_len, qkd_key_buffer_pos >> ]_vars

\* the call has failed with no URL, after a session that had delivered a
\* key was ended and the configuration destroyed
C20_Witness ==
    \E t \in Callers :
        /\ pc[t] = "ret"
        /\ op[t] = "random_bytes"
        /\ num[t] > 0
        /\ ret[t] = 0
        /\ reqs = << >>
        /\ qkd_service_url = NULL
        /\ qkd_key_handle = NULL
        /\ qkd_key_buffer = << >>
        /\ served >= 1

\* C21: seed() and add_entropy(), called in any state with any argument,
\* return 1, send no request and leave the URL, the handle, the key buffer,
\* its length and its cursor as they were.
C21_SeedAddNoOp ==
    [][ \A t \in Callers :
          (pc[t] = "idle" /\ op'[t] \in {"seed", "add"})
          => /\ pc'[t] = "ret"
             /\ ret'[t] = 1
             /\ reqs' = << >>
             /\ session' = session
             /\ UNCHANGED << qkd_service_url, qkd_key_handle, qkd_key_buffer,
                             qkd_key_buffer_len, qkd_key_buffer_pos >> ]_vars

\* seed() has returned while a session is open and a block is partly used
C21_Witness ==
    \E t \in Callers :
        /\ pc[t] = "ret"
        /\ op[t] = "seed"
        /\ ret[t] = 1
        /\ qkd_key_handle # NULL
        /\ qkd_key_buffer # << >>
        /\ 0 < qkd_key_buffer_pos
        /\ qkd_key_buffer_pos < qkd_key_buffer_len

\* the bytes handed to the caller of thread t by the current call
Output(t) == SubSeq(buf[t], 1, bytes_provided[t])

\* the cursor is inside the block and the length is the block's
CursorInBlock ==
    /\ 0 <= qkd_key_buffer_pos
    /\ qkd_key_buffer_pos <= qkd_key_buffer_len
    /\ qkd_key_buffer_len = Len(qkd_key_buffer)

\* the bytes the current call has taken from the current block are the
\* bytes just before the cursor
TakenBeforeCursor ==
    \A t \in Callers :
        (op[t] = "random_bytes" /\ pc[t] \in {"loop", "ret"})
        => LET m == IF qkd_key_buffer_pos < bytes_provided[t]
                    THEN qkd_key_buffer_pos ELSE bytes_provided[t]
           IN  SubSeq(Output(t), bytes_provided[t] - m + 1, bytes_provided[t])
               = SubSeq(qkd_key_buffer, qkd_key_buffer_pos - m + 1, qkd_key_buffer_pos)

\* a step leaves block and cursor alone, or hands out the bytes at the
\* cursor and moves the cursor past them, or puts the cursor at the start
\* of a new or an empty block
CursorStep ==
    \/ UNCHANGED << qkd_key_buffer, qkd_key_buffer_len, qkd_key_buffer_pos >>
    \/ /\ UNCHANGED << qkd_key_buffer, qkd_key_buffer_len >>
       /\ qkd_key_buffer_pos' > qkd_key_buffer_pos
       /\ \E t \in Callers :
            /\ bytes_provided'[t] - bytes_provided[t]
               = qkd_key_buffer_pos' - qkd_key_buffer_pos
            /\ SubSeq(buf'[t], 1, bytes_provided[t]) = Output(t)
            /\ SubSeq(buf'[t], bytes_provided[t] + 1, bytes_provided'[t])
               = SubSeq(qkd_key_buffer, qkd_key_buffer_pos + 1, qkd_key_buffer_pos')
    \/ /\ qkd_key_buffer' # qkd_key_buffer
       /\ qkd_key_buffer_pos' = 0
       /\ qkd_key_buffer_len' = Len(qkd_key_buffer')

\* C22: with a single caller the cursor is always between 0 and the length
\* of the block; the bytes handed out from the block are the bytes before
\* the cursor, in order and once each, and the bytes from the cursor to the
\* length are the ones still to hand out.
C22_CursorDescribesBlock ==
    /\ [](CursorInBlock /\ TakenBeforeCursor)
    /\ [][CursorStep]_vars

\* a call has taken the first bytes of a block that holds more
C22_Witness ==
    \E t \in Callers :
        /\ Returned(t)
        /\ ret[t] = 1
        /\ 0 < qkd_key_buffer_pos
        /\ qkd_key_buffer_pos < qkd_key_buffer_len
        /\ Output(t) = SubSeq(qkd_key_buffer, 1, qkd_key_buffer_pos)

\* C23: a configure call that fails (NULL value, or the new value cannot be
\* stored) returns 0 and leaves the URL, the handle and the key buffer as
\* they were; one that succeeds returns 1, has replaced the URL and has
\* changed nothing else.
C23_ConfigureAllOrNothing ==
    [][ \A t \in Callers :
          (pc[t] = "idle" /\ op'[t] = "ctrl")
          => /\ pc'[t] = "ret"
             /\ ret'[t] \in {0, 1}
             /\ reqs' = << >>
             /\ UNCHANGED << qkd_key_handle, qkd_key_buffer, qkd_key_buffer_len,
                             qkd_key_buffer_pos >>
             /\ ret'[t] = 0 => qkd_service_url' = qkd_service_url
             /\ ret'[t] = 1 => qkd_service_url' # NULL ]_vars

\* the step sends a fetch request
FetchSent ==
    /\ Len(reqs') = Len(reqs) + 1
    /\ reqs'[Len(reqs')].op = "get_key"

\* C24: random_bytes sends a fetch request only when no unread byte is left
\* in the buffer and fewer than n bytes have been produced.  While unread
\* bytes remain the loop copies from them, also when they were left by an
\* earlier call, and only a close (cleanup, destroy) discards them.
C24_FetchOnlyWhenExhausted ==
    [][ /\ FetchSent
          => /\ Remaining = 0
             /\ \E t \in Callers : /\ pc[t] = "loop"
                                   /\ op[t] = "random_bytes"
                                   /\ bytes_provided[t] < num[t]
        /\ \A t \in Callers :
             (pc[t] = "loop" /\ bytes_provided[t] < num[t] /\ Remaining > 0)
             => /\ reqs' = reqs
                /\ qkd_key_buffer_pos' > qkd_key_buffer_pos
                /\ bytes_provided'[t] - bytes_provided[t]
                   = qkd_key_buffer_pos' - qkd_key_buffer_pos
                /\ UNCHANGED << qkd_key_buffer, qkd_key_buffer_len >>
        /\ (Remaining > 0 /\ << qkd_key_buffer, qkd_key_buffer_len >>'
                             # << qkd_key_buffer, qkd_key_buffer_len >>)
           => /\ \E t \in Callers : op'[t] \in {"cleanup", "destroy"}
              /\ qkd_key_buffer' = << >> ]_vars

\* the second call of a session has first taken the bytes the first call
\* left in the buffer, without a request, and now needs a fetch
C24_Witness ==
    \E t \in Callers :
        /\ op[t] = "random_bytes"
        /\ Kind(C(t)) = "fetch"
        /\ Len(calls) = 2
        /\ reqs = << >>
        /\ 0 < bytes_provided[t]
        /\ Output(t) = SubSeq(qkd_key_buffer, qkd_key_buffer_len - bytes_provided[t] + 1,
                              qkd_key_buffer_len)

\* the smaller of two numbers
Min(a, b) == IF a < b THEN a ELSE b

\* C25: a copy step of random_bytes takes k = min(remaining, n - produced)
\* bytes, the ones at the cursor; k is at least 1 and at most remaining;
\* after it remaining is k less, produced is k more, the output has grown
\* by those bytes and the block is what it was.
C25_CopyTakesMin ==
    [][ \A t \in Callers :
          Kind(C(t)) = "copy"
          => LET k == Min(Remaining, num[t] - bytes_provided[t])
             IN  /\ 1 <= k
                 /\ k <= Remaining
                 /\ qkd_key_buffer_len' - qkd_key_buffer_pos' = Remaining - k
                 /\ bytes_provided'[t] = bytes_provided[t] + k
                 /\ buf'[t] = Output(t) \o SubSeq(qkd_key_buffer, qkd_key_buffer_pos + 1,
                                                  qkd_key_buffer_pos + k)
                 /\ UNCHANGED << qkd_key_buffer, qkd_key_buffer_len >>
                 /\ reqs' = reqs ]_vars

\* a call is complete after a copy that took all that remained of a block
\* and a copy that took less than remained of the next
C25_Witness ==
    \E t \in Callers :
        /\ op[t] = "random_bytes"
        /\ Kind(C(t)) = "exit"
        /\ num[t] > 0
        /\ Len(reqs) >= 2
        /\ reqs[Len(reqs)].op = "get_key"
        /\ reqs[Len(reqs) - 1].op = "get_key"
        /\ qkd_key_buffer_pos < bytes_provided[t]
        /\ Remaining > 0

\* the step sends one request, to the path o
Sent(o) ==
    /\ Len(reqs') = Len(reqs) + 1
    /\ reqs'[Len(reqs')].op = o

\* the request the step sends
NewReq == reqs'[Len(reqs')]

\* C26: with a single caller the requests follow the protocol.  An open is
\* sent only while no handle is held, at most once in a call; after an open
\* that returned a handle the next request is the confirmation, with that
\* handle; a fetch is sent only in a session whose confirmation succeeded;
\* fetch and close carry the handle held, which is always the one the most
\* recent successful open returned.
C26_ProtocolOrder ==
    [][ /\ Sent("open")
          => /\ qkd_key_handle = NULL
             /\ \A i \in 1..Len(reqs) : reqs[i].op # "open"
             /\ \E t \in Callers : op[t] = "random_bytes"
        /\ Sent("connect")
          => /\ reqs # << >>
             /\ LastReq.op = "open"
             /\ LastReq.ok
             /\ NewReq.handle = LastReq.got
        /\ (reqs # << >> /\ LastReq.op = "open" /\ LastReq.ok /\ reqs' # << >>)
          => Sent("connect")
        /\ Sent("get_key")
          => /\ session = "Open"
             /\ qkd_key_handle # NULL
             /\ NewReq.handle = qkd_key_handle
        /\ Sent("close")
          => /\ qkd_key_handle # NULL
             /\ NewReq.handle = qkd_key_handle
        /\ qkd_key_handle' # qkd_key_handle
          => \/ qkd_key_handle' = NULL
             \/ Sent("open") /\ NewReq.ok /\ qkd_key_handle' = NewReq.got ]_vars

\* a later call of a session fetches with the handle an earlier call opened
C26_Witness ==
    /\ Len(calls) = 2
    /\ reqs # << >>
    /\ \A i \in 1..Len(reqs) : reqs[i].op = "get_key" /\ reqs[i].ok
    /\ LastReq.handle = qkd_key_handle
    /\ session = "Open"

\* C27: a transport failure or a status other than 200 makes the open, the
\* confirmation and the fetch fail, and nothing of such a response is kept:
\* no handle after the open, no key bytes after the fetch.  The close is
\* the one request whose failure changes nothing.
C27_Non200Fails ==
    [][ \A t \in Callers :
          /\ (Sent("open") /\ NewReq.code # 200)
             => /\ qkd_key_handle' = NULL
                /\ pc'[t] = "ret"
                /\ ret'[t] = 0
          /\ (Sent("connect") /\ NewReq.code # 200)
             => /\ pc'[t] = "connect_err"
                /\ session' = session
                /\ session # "Open"
          /\ (Sent("get_key") /\ NewReq.code # 200)
             => /\ qkd_key_buffer' = << >>
                /\ qkd_key_buffer_len' = 0
                /\ qkd_key_buffer_pos' = 0
                /\ buf'[t] = buf[t]
                /\ bytes_provided'[t] = bytes_provided[t]
                /\ pc'[t] = "ret"
                /\ ret'[t] = (IF bytes_provided[t] > 0 THEN 1 ELSE 0)
          /\ (Sent("close") /\ NewReq.code # 200)
             => \/ pc[t] = "connect_err" /\ pc'[t] = "connect_free"
                \/ /\ op'[t] \in {"cleanup", "destroy"}
                   /\ pc'[t] = "ret"
                   /\ qkd_key_handle' = NULL
                   /\ qkd_key_buffer' = << >> ]_vars

\* an open was answered with status 500 and a body that names a handle:
\* the call has failed and no handle is held
C27_Witness ==
    \E t \in Callers :
        /\ Returned(t)
        /\ ret[t] = 0
        /\ reqs # << >>
        /\ LastReq.op = "open"
        /\ LastReq.code = 500
        /\ LastReq.got # NULL
        /\ qkd_key_handle = NULL

\* C28: a fetch attempted without a handle or without a URL returns -1,
\* sends no request and leaves the engine, with its key buffer and cursor,
\* as it was, whatever the service would have answered; the random_bytes
\* call that attempted it returns at once.
C28_FetchNotConnected ==
    \A t \in Callers :
        (qkd_service_url = NULL \/ qkd_key_handle = NULL)
        => \A resp \in {Http500, KeyResponse(1, 3)} :
             LET f == template_engine_fetch_key(C(t), resp)
                 r == template_rand_bytes_fetch(C(t), resp)
             IN  /\ f.rc = -1
                 /\ f.req = << >>
                 /\ f.c = C(t)
                 /\ Kind(C(t)) = "fetch"
                    => /\ r.req = << >>
                       /\ r.c = [C(t) EXCEPT !.pc = "ret",
                                             !.ret = IF bytes_provided[t] > 0 THEN 1 ELSE 0]

\* a call made with a handle but no URL has used up the block left in the
\* buffer, attempted a fetch and returned short; the block is still there
C28_Witness ==
    \E t \in Callers :
        /\ Returned(t)
        /\ qkd_service_url = NULL
        /\ qkd_key_handle # NULL
        /\ reqs = << >>
        /\ 0 < bytes_provided[t]
        /\ bytes_provided[t] < num[t]
        /\ qkd_key_buffer # << >>
        /\ qkd_key_buffer_pos = qkd_key_buffer_len

\* thread t is in a random_bytes(buf, 0) call
ZeroCall(t) == op[t] = "random_bytes" /\ num[t] = 0

\* the requests of the current call are a successful open and confirmation
OpenedNow ==
    /\ Len(reqs) = 2
    /\ reqs[1].op = "open" /\ reqs[1].ok
    /\ reqs[2].op = "connect" /\ reqs[2].ok

\* C29: random_bytes(buf, 0) sends no fetch, writes nothing to buf and
\* leaves key buffer, length and cursor unchanged; it returns 1 exactly
\* when a handle was already held at its entry or the open and the
\* confirmation it sent both succeeded.
C29_ZeroBytes ==
    /\ [](\A t \in Callers :
            ZeroCall(t)
            => /\ \A i \in 1..Len(reqs) : reqs[i].op # "get_key"
               /\ buf[t] = << >>
               /\ bytes_provided[t] = 0
               /\ pc[t] = "ret"
                  => /\ ret[t] \in {0, 1}
                     /\ ret[t] = 1 <=> \/ reqs = << >> /\ qkd_key_handle # NULL
                                       \/ OpenedNow)
    /\ [][ \A t \in Callers :
             (op'[t] = "random_bytes" /\ num'[t] = 0)
             => UNCHANGED << qkd_key_buffer, qkd_key_buffer_len, qkd_key_buffer_pos >> ]_vars

\* random_bytes(buf, 0) has returned 1 in an open session without a
\* request, the unread bytes of the block untouched
C29_Witness ==
    \E t \in Callers :
        /\ ZeroCall(t)
        /\ pc[t] = "ret"
        /\ ret[t] = 1
        /\ reqs = << >>
        /\ 0 < qkd_key_buffer_pos
        /\ qkd_key_buffer_pos < qkd_key_buffer_len

\* C30: the block a successful fetch stores is the byte sequence the
\* service encoded, of the same length: whenever the buffer holds a block,
\* it is the last key the service sent and its length is that key's length.
C30_BlockLengthIsKeyLength ==
    (qkd_key_buffer # << >> /\ fetched # << >>)
    => /\ qkd_key_buffer_len = fetched[Len(fetched)]
       /\ qkd_key_buffer = RawKey(served, fetched[Len(fetched)])

\* the block the i-th fetch of the responses env stores, empty when the
\* fetch fails
StoredBlock(env, i) ==
    LET resp == FetchResponse(env, i)
    IN  IF Answered("get_key", resp) THEN EVP_DecodeBlock(resp.key_buffer).out ELSE << >>

RECURSIVE StoredStream(_, _, _)
\* the blocks stored by the fetches i, i + 1, ..., last, one after the other
StoredStream(env, i, last) ==
    IF i > last THEN << >>
    ELSE StoredBlock(env, i) \o StoredStream(env, i + 1, last)

\* s is a prefix of w
IsPrefix(s, w) == Len(s) <= Len(w) /\ s = SubSeq(w, 1, Len(s))

\* the responses of a session whose fetches deliver blocks of the lengths
\* lens in turn, a length 0 standing for a fetch that fails
StreamEnv(h, lens) ==
    [open |-> OkHandle(h), confirm |-> Http200, close |-> Http200, lens |-> lens,
     base |-> served, off |-> 0, cap |-> served + 2 * MaxPeriod + 2]

\* C31: with a single caller no key byte is delivered twice.  From any
\* state between two calls, what two random_bytes calls in a row deliver is
\* a prefix of the unread rest of the current block followed by the blocks
\* their fetches store, in fetch order; so all the bytes delivered in a
\* session are a prefix of the blocks fetched in it.
C31_DeliveredOnce ==
    \A t \in Callers : pc[t] = "idle" =>
        \A a \in ConcatNums, b \in ConcatNums, h \in Handles,
           lens \in [1..MaxPeriod -> ConcatLens \cup {0}] :
            LET env == StreamEnv(h, lens)
                r1 == template_rand_bytes(C(t), a, env)
                r2 == template_rand_bytes(Finish(r1.c), b, [env EXCEPT !.off = r1.used])
                rest == SubSeq(qkd_key_buffer, qkd_key_buffer_pos + 1, qkd_key_buffer_len)
            IN  /\ IsPrefix(Delivered(r1) \o Delivered(r2),
                            rest \o StoredStream(env, 1, r1.used + r2.used))
                /\ Len(Delivered(r1)) <= a
                /\ Len(Delivered(r2)) <= b

\* a state with fewer than 4 unread bytes from which a call of 4 bytes takes
\* them and the first byte of a new block, and the next call of 4 bytes
\* goes on in that block
C31_Witness ==
    \E t \in Callers :
        /\ pc[t] = "idle"
        /\ qkd_service_url # NULL
        /\ 0 < Remaining
        /\ Remaining < 4
        /\ LET env == StreamEnv(1, << 16, 3 >>)
               r1 == template_rand_bytes(C(t), 4, env)
               r2 == template_rand_bytes(Finish(r1.c), 4, [env EXCEPT !.off = r1.used])
           IN  /\ r1.used = 1
               /\ r2.used = 0
               /\ Len(Delivered(r1) \o Delivered(r2)) = 8
               /\ r2.c.pos = 4 + 4 - Remaining

\* C32: with a single caller, whenever no handle is held the key buffer is
\* empty, with length 0 and cursor 0: no key material is kept without a
\* session.
C32_NoHandleNoKey ==
    qkd_key_handle = NULL
    => /\ qkd_key_buffer = << >>
       /\ qkd_key_buffer_len = 0
       /\ qkd_key_buffer_pos = 0

\* cleanup() has closed a session in which 20 of the 33 bytes of the one
\* block fetched had been delivered
C32_Witness ==
    \E t \in Callers :
        /\ pc[t] = "ret"
        /\ op[t] = "cleanup"
        /\ reqs # << >>
        /\ LastReq.op = "close"
        /\ fetched = << 32 >>
        /\ delivered = 20
        /\ qkd_key_handle = NULL
        /\ qkd_key_buffer = << >>

\* C33: destroy sends the close request of an open session to the URL
\* still configured, and leaves no handle, no key buffer and no URL;
\* status() is then false and a following random_bytes call returns 0
\* without a request.
C33_DestroyClosesAll ==
    [][ \A t \in Callers :
          (pc[t] = "idle" /\ op'[t] = "destroy")
          => /\ qkd_key_handle # NULL
                => /\ Sent("close")
                   /\ NewReq.handle = qkd_key_handle
                   /\ NewReq.url = qkd_service_url
                   /\ NewReq.url # NULL
             /\ qkd_key_handle' = NULL
             /\ qkd_key_buffer' = << >>
             /\ qkd_key_buffer_len' = 0
             /\ qkd_key_buffer_pos' = 0
             /\ qkd_service_url' = NULL
             /\ LET after == [C(t) EXCEPT !.url = qkd_service_url',
                                          !.handle = qkd_key_handle',
                                          !.buffer = qkd_key_buffer',
                                          !.len = qkd_key_buffer_len',
                                          !.pos = qkd_key_buffer_pos']
                IN  /\ template_rand_status(after) = 0
                    /\ \A n \in NumVals :
                         LET r == template_rand_bytes(after, n, StreamEnv(1, << 3, 3 >>))
                         IN  r.c.ret = 0 /\ r.reqs = << >> ]_vars

\* the step is the call o of the remote key engine, from entry to its end
RemoteCalled(o) == remote.pc = "idle" /\ remote'.pc # "idle" /\ remote'.op = o

\* the URL a load reads: Alice's for the private key, Bob's for the public
LoadUrl(o) == IF o = "load_privkey" THEN alice_url ELSE bob_url

\* C34: a load of the remote key engine sends its key request exactly when
\* its URL is set and key_handle is not -1; otherwise it returns NULL with
\* the error 'uninitialized', sends nothing and leaves the URLs and the
\* handle as they were.  Outside a session (before the first OPEN_SESSION
\* that returned 1, and after a CLOSE_SESSION or finish until the next such
\* OPEN_SESSION) key_handle is -1, so every load fails this way.
C34_LoadNeedsSession ==
    /\ [](remote.pc # "crashed" /\ ~remote.opened => key_handle = -1)
    /\ [][\A o \in {"load_privkey", "load_pubkey"} :
            RemoteCalled(o) =>
                IF LoadUrl(o) # NULL /\ key_handle # -1
                THEN /\ Len(remote'.reqs) = 1
                     /\ remote'.reqs[1].op = "get_key"
                     /\ remote'.reqs[1].url = LoadUrl(o)
                     /\ remote'.reqs[1].handle = key_handle
                ELSE /\ remote'.reqs = << >>
                     /\ remote'.pc = "ret"
                     /\ remote'.ret = 0
                     /\ remote'.err = "UNINITIALIZED"
                     /\ UNCHANGED << alice_url, bob_url, key_handle >>]_vars

\* a private-key load right after a CLOSE_SESSION, with both URLs still
\* set, has failed with 'uninitialized' and sent nothing
C34_Witness ==
    /\ remote.pc = "ret"
    /\ remote.op = "load_privkey"
    /\ remote.prev = "close"
    /\ alice_url # NULL
    /\ bob_url # NULL
    /\ remote.err = "UNINITIALIZED"
    /\ remote.reqs = << >>

C36_FailedOpenKeepsHandle ==
    remote.pc = "idle" =>
        \A resp \in RemoteResponses, ub \in BodyOutcomes :
            LET r == http_request(alice_url, resp, ub)
                h == parse_key_handle_from_json(r)
                out == engine_remote_qkd_ctrl_open(RemoteGlobals, resp, ub)
            IN  ~out.crashed =>
                    IF r.body # "none" /\ h # -1
                    THEN out.ret = 1 /\ out.e.key_handle = h
                    ELSE out.ret = 0 /\ out.e.key_handle = key_handle

====
